---- MODULE Spec2Model ----
(***************************************************************************)
(* Content-generation backend: the course pipeline (description ->         *)
(* modules -> lessons, each persisted with one insert), the cascading      *)
(* deletes of courses and segments, the route table mounted at startup,    *)
(* and the failure paths of the component operations.                      *)
(*                                                                         *)
(* A collection is a bag of documents: MongoDB tells equal documents apart *)
(* by _id, so inserting the same content twice gives two documents.        *)
(* unique_id_generator is modelled as a source of fresh identifiers.       *)
(***************************************************************************)
EXTENDS Bags, FiniteSets, Integers, Sequences, TLC

(* ------------------------------ bounds -------------------------------- *)
MaxCourses == 2          \* courses generated in a run of Spec
MaxSegmentCourses == 1   \* courses generated in a run of SpecSegments
MaxSegments == 2
MaxDomains == 1
MaxModules == 2          \* modules the curriculum call may return
MaxLessons == 2          \* lessons an outline call may return
MaxCombined == 2         \* create_combined_course calls in a run
MaxCourseIdList == 2     \* longest course_ids list of a request
MaxConcurrentCourses == 2  \* courses generated in a run of SpecConcurrent
MaxLines == 5            \* lines of a model response to expand_lesson_content

Names == {"python", "sql"}
SegmentNames == {"beginners"}
CourseIds == 1..MaxCourses
SegmentIds == 1..MaxSegments
DomainIds == 1..MaxDomains
Workers == {1}
Concurrent == {1, 2}     \* the requests in flight in SpecConcurrent

VARIABLES
    api_router,            \* routes registered on api_router: <<prefix, path>>
    app,                   \* routes served by the application: <<mount, prefix, path>>
    boot,                  \* number of include_router calls executed so far
    courses_collection,
    modules_collection,
    lessons_collection,
    domain_collection,
    segments_collection,
    next_course_id,        \* unique_id_generator("COURSE")
    next_segment_id,       \* unique_id_generator("segment")
    next_domain_id,        \* unique_id_generator("DOMAIN")
    req,                   \* the request each worker is handling
    gen,                   \* one generate_course call, seen at the level of
                           \* its model invocations and quality checks
    lesson,                \* the lesson handed to evaluate_lesson
    evaluation,            \* what evaluate_lesson returned for it
    combined_courses_collection,
    next_combined_id,      \* unique_id_generator("COMBO")
    users_collection,
    expansion              \* one expand_lesson_content call: the model's
                           \* response and the lesson built from it

db == <<courses_collection, modules_collection, lessons_collection,
        domain_collection, segments_collection>>
ids == <<next_course_id, next_segment_id, next_domain_id>>
startup == <<api_router, app, boot>>
\* the collections and calls the course, domain and segment handlers never touch
untouched == <<combined_courses_collection, next_combined_id, users_collection,
            expansion>>
server == <<api_router, app, boot, courses_collection, modules_collection,
            lessons_collection, domain_collection, segments_collection,
            next_course_id, next_segment_id, next_domain_id, req, untouched>>
detail == <<gen, lesson, evaluation, untouched>>
vars == <<api_router, app, boot, courses_collection, modules_collection,
          lessons_collection, domain_collection, segments_collection,
          next_course_id, next_segment_id, next_domain_id, req,
          gen, lesson, evaluation, combined_courses_collection,
          next_combined_id, users_collection, expansion>>

(* ------------------------- application startup ------------------------ *)
\* The routes each endpoint module declares on its own router.
EndpointRoutes(module) ==
    CASE module = "auth" ->
            {"/register/administrator", "/register/course-creator",
             "/register/organization", "/login", "/me"}
      [] module = "segments" ->
            {"/add-segments", "/update-segment", "/delete-segment",
             "/get-segment", "/get-all-segments"}
      [] module = "courses" ->
            {"/ai/add-course", "/combine-courses", "/get-courses",
             "/combined-courses", "/get-courses-by-segments", "/edit-trending",
             "/update-courses", "/delete-courses", "/add-segment-to-course",
             "/remove-segment-from-course"}
      [] module = "domain" ->
            {"/add-domain", "/get-domains", "/update-demand",
             "/demand/get-domains", "/add-courses", "/get-courses",
             "/delete-domain", "/update-domain", "/delete-course",
             "/add-segments-to-domain", "/remove-segments-from-domain"}
      [] module = "modules" ->
            {"/get-modules", "/update/module", "/update/module-content"}
      [] module = "lessons" -> {"/get-lessons", "/ai/bot"}

\* The include_router calls api_router.py executes, in order.
RouterIncludes ==
    << [module |-> "segments", prefix |-> "/segments"],
       [module |-> "courses",  prefix |-> "/courses"],
       [module |-> "domain",   prefix |-> "/domain"],
       [module |-> "modules",  prefix |-> "/modules"],
       [module |-> "lessons",  prefix |-> "/lessons"] >>

ApiMount == "/api/v1"

include_router(routes, inc) ==
    routes \cup {<<inc.prefix, p>> : p \in EndpointRoutes(inc.module)}

Serving == boot = Len(RouterIncludes) + 1

Served(prefix, path) == <<ApiMount, prefix, path>> \in app

IncludeEndpoints ==
    /\ boot < Len(RouterIncludes)
    /\ api_router' = include_router(api_router, RouterIncludes[boot + 1])
    /\ boot' = boot + 1
    /\ UNCHANGED <<app, db, ids, req, detail>>

MountApi ==
    /\ boot = Len(RouterIncludes)
    /\ app' = {<<ApiMount, r[1], r[2]>> : r \in api_router}
    /\ boot' = boot + 1
    /\ UNCHANGED <<api_router, db, ids, req, detail>>

(* ------------------------------ documents ----------------------------- *)
CustomException == <<"CustomException">>

Raise(v) == [kind |-> "raise", value |-> v]
Return(v) == [kind |-> "return", value |-> v]
NoOutcome == [kind |-> "none", value |-> <<>>]

NoData == [course_name |-> "", has_description |-> FALSE, course_id |-> 0,
           segment_id |-> 0, domain_id |-> 0, course_ids |-> <<>>,
           email |-> "", role |-> ""]

\* the HTTP answer to a request, once there is one
NoResponse == [status_code |-> "", detail |-> "", handler |-> FALSE]

IdleRequest ==
    [op |-> "idle", pc |-> "idle", data |-> NoData, unique_id |-> 0,
     description |-> {}, generated_modules |-> {}, lessons |-> {},
     found |-> FALSE, llm |-> FALSE, failed |-> FALSE, trace |-> <<>>,
     pre |-> <<>>, outcome |-> NoOutcome,
     missing_course_ids |-> <<>>, combined_course |-> {},
     response |-> NoResponse]

\* A document of the courses collection as generate_description builds it;
\* the segment_ids array is absent until add_segment_to_course, read as [].
CourseDescription(data, unique_id) ==
    [course_id |-> unique_id, course_name |-> data.course_name,
     segment_ids |-> {}]

(* ---------------------------- collections ----------------------------- *)
insert_one(collection, document) == collection (+) SetToBag({document})

\* MongoUtils.insert_one_document: the document is in the collection exactly
\* when insert_one returned; a failure surfaces as an exception.
PlainInsert(collection, document, ok) == insert_one(collection, document)
insert_one_document(collection, document, ok) ==
    IF ok THEN insert_one(collection, document) ELSE collection

WithCourseId(collection, course_id) ==
    {d \in BagToSet(collection) : d.course_id = course_id}

WithCourseName(collection, course_name) ==
    {d \in BagToSet(collection) : d.course_name = course_name}

DeleteEverything(collection, course_id) == EmptyBag
delete_many_by_course_id(collection, course_id) ==
    LET keep == {d \in BagToSet(collection) : d.course_id # course_id}
    IN  [d \in keep |-> collection[d]]

RECURSIVE Copies(_, _)
Copies(collection, docs) ==
    IF docs = {} THEN 0
    ELSE LET d == CHOOSE x \in docs : TRUE
         IN  collection[d] + Copies(collection, docs \ {d})

\* update_many: every document is replaced by its image under F.
UpdateAll(collection, F(_)) ==
    LET images == {F(d) : d \in BagToSet(collection)}
    IN  [e \in images |->
            Copies(collection, {d \in BagToSet(collection) : F(d) = e})]

CountByCourseId(collection, course_id) ==
    Copies(collection, WithCourseId(collection, course_id))

(* --------------------------- generate_course -------------------------- *)
\* The statements of Courses.generate_course after the existence check, in
\* program order.
ReorderedPipeline ==
    <<"generate_description", "generate_module", "insert_course",
      "insert_modules", "generate_lessons", "insert_lessons">>
Pipeline ==
    <<"generate_description", "insert_course", "generate_module",
      "insert_modules", "generate_lessons", "insert_lessons">>

StageIndex(stage) == CHOOSE i \in 1..Len(Pipeline) : Pipeline[i] = stage

NextStage(stage) ==
    IF StageIndex(stage) = Len(Pipeline) THEN "return"
    ELSE Pipeline[StageIndex(stage) + 1]

AlreadyExists(course_name) == <<"Course '", course_name, "' already exists.">>
InsertResult == <<"udpated", "True">>

NeverFound(collection, course_name) == {}
find_one_by_course_name(collection, course_name) ==
    WithCourseName(collection, course_name)

\* The collections as a request finds them. Recorded where requests are
\* handled one at a time; with several requests in flight the collections
\* change under a request, and nothing is recorded.
Snapshot ==
    IF DOMAIN req = Workers
    THEN [courses |-> courses_collection, modules |-> modules_collection,
          lessons |-> lessons_collection, domains |-> domain_collection,
          segments |-> segments_collection,
          combined |-> combined_courses_collection,
          users |-> users_collection]
    ELSE [courses |-> EmptyBag, modules |-> EmptyBag, lessons |-> EmptyBag,
          domains |-> EmptyBag, segments |-> EmptyBag, combined |-> EmptyBag,
          users |-> EmptyBag]

Idle(w) == req[w].pc = "idle"
Finished(w) == req[w].pc \in {"returned", "raised"}

\* The handler ends in its except clause: raise CustomException(e, sys).
Raised(r) == [r EXCEPT !.pc = "raised", !.failed = TRUE,
                       !.outcome = Raise(CustomException)]
Returned(r, v) == [r EXCEPT !.pc = "returned", !.outcome = Return(v)]

BeginGenerateCourse(w, cap) ==
    /\ Serving /\ Idle(w)
    /\ Served("/courses", "/ai/add-course")
    /\ next_course_id <= cap
    /\ \E name \in Names, given \in BOOLEAN :
          req' = [req EXCEPT ![w] =
                    [IdleRequest EXCEPT !.op = "generate_course",
                                        !.pc = "find_existing",
                                        !.data.course_name = name,
                                        !.data.has_description = given,
                                        !.pre = <<Snapshot>>]]
    /\ UNCHANGED <<startup, detail, db, ids>>

\* lines 118-125: existence check, early return, unique id.
FindExisting(w) ==
    /\ req[w].op = "generate_course" /\ req[w].pc = "find_existing"
    /\ \E ok \in BOOLEAN :
          LET r == req[w]
              existing_course ==
                  find_one_by_course_name(courses_collection, r.data.course_name)
          IN  IF ~ok
              THEN /\ req' = [req EXCEPT ![w] = Raised(r)]
                   /\ UNCHANGED next_course_id
              ELSE IF existing_course # {}
              THEN /\ req' = [req EXCEPT ![w] =
                          Returned([r EXCEPT !.found = TRUE],
                                   AlreadyExists(r.data.course_name))]
                   /\ UNCHANGED next_course_id
              ELSE /\ req' = [req EXCEPT ![w] =
                          [r EXCEPT !.unique_id = next_course_id,
                                    !.pc = Pipeline[1]]]
                   /\ next_course_id' = next_course_id + 1
    /\ UNCHANGED <<startup, detail, db, next_segment_id, next_domain_id>>

Advance(r) ==
    LET n == NextStage(r.pc)
        t == [r EXCEPT !.trace = Append(r.trace, r.pc)]
    IN  IF n = "return" THEN Returned(t, InsertResult) ELSE [t EXCEPT !.pc = n]

Fail(r) == Raised([r EXCEPT !.trace = Append(r.trace, r.pc)])

\* lines 128-130: the model is invoked only when the request carries no
\* description; a failure of the generator or of its construction is
\* re-raised as CustomException.
GenerateDescription(w) ==
    /\ req[w].op = "generate_course" /\ req[w].pc = "generate_description"
    /\ \E ok \in BOOLEAN :
          LET r == req[w]
              called == ~r.data.has_description
          IN  req' = [req EXCEPT ![w] =
                    IF ok
                    THEN Advance([r EXCEPT
                            !.description =
                                {CourseDescription(r.data, r.unique_id)},
                            !.llm = r.llm \/ called])
                    ELSE Fail([r EXCEPT !.llm = r.llm \/ called])]
    /\ UNCHANGED <<startup, detail, db, ids>>

\* lines 131-132
InsertCourse(w) ==
    /\ req[w].op = "generate_course" /\ req[w].pc = "insert_course"
    /\ \E ok \in BOOLEAN, d \in req[w].description :
          /\ courses_collection' =
                insert_one_document(courses_collection, d, ok)
          /\ req' = [req EXCEPT ![w] =
                        IF ok THEN Advance(req[w]) ELSE Fail(req[w])]
    /\ UNCHANGED <<startup, detail, modules_collection, lessons_collection,
                   domain_collection, segments_collection, ids>>

\* ModuleGraphgenerator.generate_module: the modules document carries the
\* course_id of the description it was given.
ForeignModules(description) == [course_id |-> 0]
generate_module(description) == [course_id |-> description.course_id]

\* lines 136-138: generate_module RETURNS a CustomException on failure; the
\* subscript generated_modules['modules'] on line 138 then raises TypeError,
\* which the except clause of generate_course wraps.
GenerateModule(w) ==
    /\ req[w].op = "generate_course" /\ req[w].pc = "generate_module"
    /\ \E ok \in BOOLEAN, d \in req[w].description :
          req' = [req EXCEPT ![w] =
                    IF ok
                    THEN Advance([req[w] EXCEPT
                            !.generated_modules = {generate_module(d)},
                            !.llm = TRUE])
                    ELSE Fail([req[w] EXCEPT !.llm = TRUE])]
    /\ UNCHANGED <<startup, detail, db, ids>>

\* lines 139-140
InsertModules(w) ==
    /\ req[w].op = "generate_course" /\ req[w].pc = "insert_modules"
    /\ \E ok \in BOOLEAN, d \in req[w].generated_modules :
          /\ modules_collection' =
                insert_one_document(modules_collection, d, ok)
          /\ req' = [req EXCEPT ![w] =
                        IF ok THEN Advance(req[w]) ELSE Fail(req[w])]
    /\ UNCHANGED <<startup, detail, courses_collection, lessons_collection,
                   domain_collection, segments_collection, ids>>

\* LessonsGenerator.generate_lessons_for_each_module(modules, course_id):
\* ModulesLessonOutput(course_id=course_id, ...).
generate_lessons_for_each_module(modules, course_id) ==
    [course_id |-> course_id]

\* lines 143-145
GenerateLessons(w) ==
    /\ req[w].op = "generate_course" /\ req[w].pc = "generate_lessons"
    /\ \E ok \in BOOLEAN, m \in req[w].generated_modules :
          req' = [req EXCEPT ![w] =
                    IF ok
                    THEN Advance([req[w] EXCEPT
                            !.lessons = {generate_lessons_for_each_module(
                                            m, req[w].unique_id)},
                            !.llm = TRUE])
                    ELSE Fail([req[w] EXCEPT !.llm = TRUE])]
    /\ UNCHANGED <<startup, detail, db, ids>>

\* lines 151-154
InsertLessons(w) ==
    /\ req[w].op = "generate_course" /\ req[w].pc = "insert_lessons"
    /\ \E ok \in BOOLEAN, d \in req[w].lessons :
          /\ lessons_collection' =
                insert_one_document(lessons_collection, d, ok)
          /\ req' = [req EXCEPT ![w] =
                        IF ok THEN Advance(req[w]) ELSE Fail(req[w])]
    /\ UNCHANGED <<startup, detail, courses_collection, modules_collection,
                   domain_collection, segments_collection, ids>>

\* The response is sent and the worker takes the next request.
Respond(w) ==
    /\ Finished(w)
    /\ req' = [req EXCEPT ![w] = IdleRequest]
    /\ UNCHANGED <<startup, detail, db, ids>>

(* ---------------------------- delete_course --------------------------- *)
DeletedMessage == <<"Course and associated data deleted successfully">>

BeginDeleteCourse(w) ==
    /\ Serving /\ Idle(w)
    /\ Served("/courses", "/delete-courses")
    /\ \E course_id \in CourseIds :
          req' = [req EXCEPT ![w] =
                    [IdleRequest EXCEPT !.op = "delete_course",
                                        !.pc = "delete_course_doc",
                                        !.data.course_id = course_id,
                                        !.pre = <<Snapshot>>]]
    /\ UNCHANGED <<startup, detail, db, ids>>

\* line 203: delete_one removes one matching document, if there is one.
DeleteCourseDoc(w) ==
    /\ req[w].op = "delete_course" /\ req[w].pc = "delete_course_doc"
    /\ \E ok \in BOOLEAN :
          LET matching == WithCourseId(courses_collection, req[w].data.course_id)
          IN  IF ~ok
              THEN /\ req' = [req EXCEPT ![w] = Raised(req[w])]
                   /\ UNCHANGED courses_collection
              ELSE /\ req' = [req EXCEPT ![w].pc = "delete_modules"]
                   /\ IF matching = {}
                      THEN UNCHANGED courses_collection
                      ELSE \E d \in matching :
                              courses_collection' =
                                  courses_collection (-) SetToBag({d})
    /\ UNCHANGED <<startup, detail, modules_collection, lessons_collection,
                   domain_collection, segments_collection, ids>>

\* line 206
DeleteModules(w) ==
    /\ req[w].op = "delete_course" /\ req[w].pc = "delete_modules"
    /\ \E ok \in BOOLEAN :
          IF ~ok
          THEN /\ req' = [req EXCEPT ![w] = Raised(req[w])]
               /\ UNCHANGED modules_collection
          ELSE /\ req' = [req EXCEPT ![w].pc = "delete_lessons"]
               /\ modules_collection' =
                     delete_many_by_course_id(modules_collection,
                                              req[w].data.course_id)
    /\ UNCHANGED <<startup, detail, courses_collection, lessons_collection,
                   domain_collection, segments_collection, ids>>

\* line 209
DeleteLessons(w) ==
    /\ req[w].op = "delete_course" /\ req[w].pc = "delete_lessons"
    /\ \E ok \in BOOLEAN :
          IF ~ok
          THEN /\ req' = [req EXCEPT ![w] = Raised(req[w])]
               /\ UNCHANGED lessons_collection
          ELSE /\ req' = [req EXCEPT ![w].pc = "pull_from_domains"]
               /\ lessons_collection' =
                     delete_many_by_course_id(lessons_collection,
                                              req[w].data.course_id)
    /\ UNCHANGED <<startup, detail, courses_collection, modules_collection,
                   domain_collection, segments_collection, ids>>

\* {"$pull": {"courses_ids": course_id}} applied to one domain document.
pull_course_id(domain, course_id) ==
    [domain EXCEPT !.courses_ids = @ \ {course_id}]

\* lines 212-217
PullFromDomains(w) ==
    /\ req[w].op = "delete_course" /\ req[w].pc = "pull_from_domains"
    /\ \E ok \in BOOLEAN :
          IF ~ok
          THEN /\ req' = [req EXCEPT ![w] = Raised(req[w])]
               /\ UNCHANGED domain_collection
          ELSE /\ req' = [req EXCEPT ![w] = Returned(req[w], DeletedMessage)]
               /\ domain_collection' =
                     UpdateAll(domain_collection,
                        LAMBDA d : pull_course_id(d, req[w].data.course_id))
    /\ UNCHANGED <<startup, detail, courses_collection, modules_collection,
                   lessons_collection, segments_collection, ids>>

(* ------------------------------- domains ------------------------------ *)
\* A handler whose except clause is "return CustomException(e, sys)".
ReturnedException(r) ==
    [r EXCEPT !.pc = "returned", !.failed = TRUE,
              !.outcome = Return(CustomException)]

WithDomainId(collection, domain_id) ==
    {d \in BagToSet(collection) : d.domain_id = domain_id}

\* update_one: the matching document d is replaced by e.
Replace(collection, d, e) ==
    (collection (-) SetToBag({d})) (+) SetToBag({e})

\* Domains.add_new_domain
AddNewDomain(w) ==
    /\ Serving /\ Idle(w)
    /\ Served("/domain", "/add-domain")
    /\ next_domain_id <= MaxDomains
    /\ next_domain_id' = next_domain_id + 1
    /\ \E generated \in BOOLEAN, ok \in BOOLEAN :
          LET r == [IdleRequest EXCEPT !.op = "add_new_domain",
                                       !.unique_id = next_domain_id,
                                       !.llm = TRUE]
              domain_data == [domain_id |-> next_domain_id,
                              courses_ids |-> {}, segment_ids |-> {}]
          IN  IF generated /\ ok
              THEN /\ domain_collection' =
                        insert_one_document(domain_collection, domain_data, ok)
                   /\ req' = [req EXCEPT ![w] = Returned(r, InsertResult)]
              ELSE /\ UNCHANGED domain_collection
                   /\ req' = [req EXCEPT ![w] = ReturnedException(r)]
    /\ UNCHANGED <<startup, detail, courses_collection, modules_collection,
                   lessons_collection, segments_collection,
                   next_course_id, next_segment_id>>

\* Domains.add_courses_to_domain
AddCoursesToDomain(w) ==
    /\ Serving /\ Idle(w)
    /\ Served("/domain", "/add-courses")
    /\ \E domain_id \in DomainIds, courses_ids \in SUBSET CourseIds,
          ok \in BOOLEAN :
          LET r == [IdleRequest EXCEPT !.op = "add_courses_to_domain",
                                       !.data.domain_id = domain_id]
              domain == WithDomainId(domain_collection, domain_id)
          IN  IF ~ok
              THEN /\ req' = [req EXCEPT ![w] = ReturnedException(r)]
                   /\ UNCHANGED domain_collection
              ELSE IF domain = {}
              THEN /\ req' = [req EXCEPT ![w] = Returned(r, <<"False">>)]
                   /\ UNCHANGED domain_collection
              ELSE \E d \in domain :
                      LET new_course_ids == courses_ids \ d.courses_ids
                      IN  /\ req' = [req EXCEPT ![w] = Returned(r, <<"True">>)]
                          /\ domain_collection' =
                               IF new_course_ids = {} THEN domain_collection
                               ELSE Replace(domain_collection, d,
                                      [d EXCEPT !.courses_ids =
                                                  @ \cup new_course_ids])
    /\ UNCHANGED <<startup, detail, courses_collection, modules_collection,
                   lessons_collection, segments_collection, ids>>

\* Domains.add_segments_to_domain
AddSegmentsToDomain(w) ==
    /\ Serving /\ Idle(w)
    /\ Served("/domain", "/add-segments-to-domain")
    /\ \E domain_id \in DomainIds, segment_ids \in SUBSET SegmentIds,
          ok \in BOOLEAN :
          LET r == [IdleRequest EXCEPT !.op = "add_segments_to_domain",
                                       !.data.domain_id = domain_id]
              domain == WithDomainId(domain_collection, domain_id)
          IN  IF ~ok
              THEN /\ req' = [req EXCEPT ![w] = ReturnedException(r)]
                   /\ UNCHANGED domain_collection
              ELSE IF domain = {}
              THEN /\ req' = [req EXCEPT ![w] = Returned(r, <<"False">>)]
                   /\ UNCHANGED domain_collection
              ELSE \E d \in domain :
                      LET new_segment_ids == segment_ids \ d.segment_ids
                      IN  /\ req' = [req EXCEPT ![w] = Returned(r, <<"True">>)]
                          /\ domain_collection' =
                               IF new_segment_ids = {} THEN domain_collection
                               ELSE Replace(domain_collection, d,
                                      [d EXCEPT !.segment_ids =
                                                  @ \cup new_segment_ids])
    /\ UNCHANGED <<startup, detail, courses_collection, modules_collection,
                   lessons_collection, segments_collection, ids>>

(* ------------------------------ segments ------------------------------ *)
WithSegmentId(collection, segment_id) ==
    {d \in BagToSet(collection) : d.segment_id = segment_id}

WithSegmentName(collection, segment_name) ==
    {d \in BagToSet(collection) : d.segment_name = segment_name}

\* Segments.add_segments
AddSegments(w) ==
    /\ Serving /\ Idle(w)
    /\ Served("/segments", "/add-segments")
    /\ next_segment_id <= MaxSegments
    /\ \E segment_name \in SegmentNames, ok \in BOOLEAN :
          LET r == [IdleRequest EXCEPT !.op = "add_segments",
                                       !.data.course_name = segment_name]
          IN  IF ~ok
              THEN /\ req' = [req EXCEPT ![w] = ReturnedException(r)]
                   /\ UNCHANGED <<segments_collection, next_segment_id>>
              ELSE IF WithSegmentName(segments_collection, segment_name) # {}
              THEN /\ req' = [req EXCEPT ![w] = Returned(r,
                          <<"Segment with this name already exists.">>)]
                   /\ UNCHANGED <<segments_collection, next_segment_id>>
              ELSE /\ req' = [req EXCEPT ![w] = Returned(
                          [r EXCEPT !.unique_id = next_segment_id],
                          <<"success", "True">>)]
                   /\ next_segment_id' = next_segment_id + 1
                   /\ segments_collection' =
                        insert_one(segments_collection,
                           [segment_id |-> next_segment_id,
                            segment_name |-> segment_name])
    /\ UNCHANGED <<startup, detail, courses_collection, modules_collection,
                   lessons_collection, domain_collection,
                   next_course_id, next_domain_id>>

\* Courses.add_segment_to_course
AddSegmentToCourse(w) ==
    /\ Serving /\ Idle(w)
    /\ Served("/courses", "/add-segment-to-course")
    /\ \E course_id \in CourseIds, segment_ids \in SUBSET SegmentIds,
          ok \in BOOLEAN :
          LET r == [IdleRequest EXCEPT !.op = "add_segment_to_course",
                                       !.data.course_id = course_id]
              course == WithCourseId(courses_collection, course_id)
          IN  IF ~ok
              THEN /\ req' = [req EXCEPT ![w] = ReturnedException(r)]
                   /\ UNCHANGED courses_collection
              ELSE IF course = {}
              THEN /\ req' = [req EXCEPT ![w] = Returned(r, <<"False">>)]
                   /\ UNCHANGED courses_collection
              ELSE \E d \in course :
                      LET new_segment_ids == segment_ids \ d.segment_ids
                      IN  /\ req' = [req EXCEPT ![w] = Returned(r, <<"True">>)]
                          /\ courses_collection' =
                               IF new_segment_ids = {} THEN courses_collection
                               ELSE Replace(courses_collection, d,
                                      [d EXCEPT !.segment_ids =
                                                  @ \cup new_segment_ids])
    /\ UNCHANGED <<startup, detail, modules_collection, lessons_collection,
                   domain_collection, segments_collection, ids>>

\* {"$pull": {"segment_ids": segment_id}} applied to one document.
PullEverySegment(document, segment_id) == [document EXCEPT !.segment_ids = {}]
pull_segment_id(document, segment_id) ==
    [document EXCEPT !.segment_ids = @ \ {segment_id}]

SegmentDeleted == <<"Segment and references deleted successfully.">>

\* Segments.delete_segment; fail_at is the database call that raises
\* (1 find_one, 2 delete_one, 3 update_many on domains, 4 update_many on
\* courses, 0 none).  The except clause returns the CustomException.
DeleteSegment(w) ==
    /\ Serving /\ Idle(w)
    /\ Served("/segments", "/delete-segment")
    /\ \E segment_id \in SegmentIds, fail_at \in 0..4 :
          LET r == [IdleRequest EXCEPT !.op = "delete_segment",
                                       !.data.segment_id = segment_id,
                                       !.pre = <<Snapshot>>]
              existing_segment == WithSegmentId(segments_collection, segment_id)
              pulled_domains ==
                  UpdateAll(domain_collection,
                            LAMBDA d : pull_segment_id(d, segment_id))
              pulled_courses ==
                  UpdateAll(courses_collection,
                            LAMBDA d : pull_segment_id(d, segment_id))
          IN  IF fail_at = 1
              THEN /\ req' = [req EXCEPT ![w] = ReturnedException(r)]
                   /\ UNCHANGED <<segments_collection, domain_collection,
                                  courses_collection>>
              ELSE IF existing_segment = {}
              THEN /\ fail_at = 0
                   /\ req' = [req EXCEPT ![w] =
                                Returned(r, <<"Segment not found.">>)]
                   /\ UNCHANGED <<segments_collection, domain_collection,
                                  courses_collection>>
              ELSE IF fail_at = 2
              THEN /\ req' = [req EXCEPT ![w] = ReturnedException(r)]
                   /\ UNCHANGED <<segments_collection, domain_collection,
                                  courses_collection>>
              ELSE \E d \in existing_segment :
                      /\ segments_collection' =
                            segments_collection (-) SetToBag({d})
                      /\ domain_collection' =
                            IF fail_at = 3 THEN domain_collection
                            ELSE pulled_domains
                      /\ courses_collection' =
                            IF fail_at \in {3, 4} THEN courses_collection
                            ELSE pulled_courses
                      /\ req' = [req EXCEPT ![w] =
                            IF fail_at = 0 THEN Returned(r, SegmentDeleted)
                            ELSE ReturnedException(r)]
    /\ UNCHANGED <<startup, detail, modules_collection, lessons_collection, ids>>

\* Courses.get_courses_by_segment_id
GetCoursesBySegmentId(w) ==
    /\ Serving /\ Idle(w)
    /\ Served("/courses", "/get-courses-by-segments")
    /\ \E segment_id \in SegmentIds, ok \in BOOLEAN :
          LET r == [IdleRequest EXCEPT !.op = "get_courses_by_segment_id",
                                       !.data.segment_id = segment_id]
          IN  req' = [req EXCEPT ![w] =
                        IF ok THEN Returned(r, <<"results">>)
                        ELSE ReturnedException(r)]
    /\ UNCHANGED <<startup, detail, db, ids>>

(* --------------------------- combined courses -------------------------- *)
\* CombineCoursesRequest.course_ids: a list of at least MinCourseIds ids;
\* nothing requires them to differ.
MinCourseIds == 2
CourseIdLists ==
    UNION {[1..n -> CourseIds] : n \in MinCourseIds..MaxCourseIdList}

\* find({"course_id": {"$in": course_ids}}): the documents that match, each
\* once, in an order the query does not fix (no sort is given).
MatchingCourses(collection, course_ids) ==
    LET hits == {d \in BagToSet(collection) :
                    \E k \in DOMAIN course_ids : d.course_id = course_ids[k]}
    IN  [d \in hits |-> collection[d]]

Orderings(found) ==
    {q \in [1..BagCardinality(found) -> BagToSet(found)] :
        \A d \in BagToSet(found) :
            Cardinality({i \in DOMAIN q : q[i] = d}) = found[d]}

\* lines 60-61
missing_course_ids(course_ids, courses_to_combine) ==
    LET found_course_ids == {courses_to_combine[i].course_id :
                                i \in DOMAIN courses_to_combine}
    IN  SelectSeq(course_ids, LAMBDA id : id \notin found_course_ids)

\* lines 66-90: order is the position in courses_to_combine.  The module
\* references come from the modules document, whose content is not modelled.
CourseOrder(courses_to_combine, course_ids, i) == i

CourseReferences(courses_to_combine, course_ids) ==
    [i \in DOMAIN courses_to_combine |->
        [course_id |-> courses_to_combine[i].course_id,
         course_name |-> courses_to_combine[i].course_name,
         order |-> CourseOrder(courses_to_combine, course_ids, i)]]

NotFoundError ==
    <<"CustomException",
      "The following course IDs were not found in the database">>

\* CombinedCourses.create_combined_course; ok is FALSE when a database call
\* of the handler raises (all of them come before the insert has effect).
CreateCombinedCourse(w) ==
    /\ Serving /\ Idle(w)
    /\ Served("/courses", "/combine-courses")
    /\ next_combined_id <= MaxCombined
    /\ next_combined_id' = next_combined_id + 1
    /\ \E course_ids \in CourseIdLists, ok \in BOOLEAN :
       \E courses_to_combine \in
             Orderings(MatchingCourses(courses_collection, course_ids)) :
          LET r == [IdleRequest EXCEPT !.op = "create_combined_course",
                                       !.data.course_ids = course_ids,
                                       !.unique_id = next_combined_id,
                                       !.pre = <<Snapshot>>]
              combined_course ==
                  [combined_course_id |-> next_combined_id,
                   courses |-> CourseReferences(courses_to_combine, course_ids)]
          IN  IF ~ok
              THEN /\ req' = [req EXCEPT ![w] = Raised(r)]
                   /\ UNCHANGED combined_courses_collection
              ELSE IF Len(courses_to_combine) # Len(course_ids)
              THEN /\ req' = [req EXCEPT ![w] =
                          [Raised(r) EXCEPT
                              !.outcome = Raise(NotFoundError),
                              !.missing_course_ids =
                                  missing_course_ids(course_ids,
                                                     courses_to_combine)]]
                   /\ UNCHANGED combined_courses_collection
              ELSE /\ combined_courses_collection' =
                        insert_one(combined_courses_collection, combined_course)
                   /\ req' = [req EXCEPT ![w] =
                          Returned([r EXCEPT !.combined_course =
                                                {combined_course}],
                                   <<"combined_course">>)]
    /\ UNCHANGED <<startup, db, next_course_id, next_segment_id,
                   next_domain_id, gen, lesson, evaluation, users_collection,
                   expansion>>

(* --------------------------- lesson expansion -------------------------- *)
\* A line of markdown is <<"##", title>> for "## title" and <<"", text>>
\* otherwise; a text is the sequence of its lines.
Titles == {"Overview", "Instruction", "Expected Output", "Answer",
           "instruction"}
Texts == {"alpha", "beta"}
Lines == ({"##"} \X Titles) \cup ({""} \X Texts)
Blank == <<"", "">>
Responses == UNION {[1..n -> Lines] : n \in 0..MaxLines}
LessonTypes == {"read", "read_and_execute"}

\* str.lower on the section titles
lower(title) ==
    CASE title = "Overview" -> "overview"
      [] title = "Instruction" -> "instruction"
      [] title = "Expected Output" -> "expected output"
      [] title = "Answer" -> "answer"
      [] OTHER -> title

\* str.strip on a text: leading and trailing blank lines go
RECURSIVE lstrip(_)
lstrip(content) ==
    IF content # <<>> /\ Head(content) = Blank THEN lstrip(Tail(content))
    ELSE content

Reverse(content) == [i \in 1..Len(content) |-> content[Len(content) + 1 - i]]

strip(content) == Reverse(lstrip(Reverse(lstrip(content))))

\* sections[name] = content on a dict that keeps insertion order
Put(sections, name, content) ==
    IF \E i \in DOMAIN sections : sections[i].name = name
    THEN [i \in DOMAIN sections |->
            IF sections[i].name = name
            THEN [name |-> name, content |-> content] ELSE sections[i]]
    ELSE Append(sections, [name |-> name, content |-> content])

\* the loop of _parse_markdown_sections from line i on, and the final save
RECURSIVE parse_from(_, _, _, _, _)
parse_from(lines, i, sections, current_section, current_content) ==
    LET saved == IF current_section # ""
                 THEN Put(sections, current_section, strip(current_content))
                 ELSE sections
    IN  IF i > Len(lines) THEN saved
        ELSE IF lines[i][1] = "##"
        THEN parse_from(lines, i + 1, saved, lines[i][2], <<>>)
        ELSE IF current_section # ""
        THEN parse_from(lines, i + 1, sections, current_section,
                        Append(current_content, lines[i]))
        ELSE parse_from(lines, i + 1, sections, current_section,
                        current_content)

_parse_markdown_sections(markdown_text) ==
    parse_from(markdown_text, 1, <<>>, "", <<>>)

\* content_sections.get(key, "")
get(sections, key) ==
    IF \E i \in DOMAIN sections : sections[i].name = key
    THEN sections[CHOOSE i \in DOMAIN sections : sections[i].name = key].content
    ELSE <<>>

excluded_sections == {"instruction", "expected_output", "answer"}

\* '\n\n'.join(content_parts)
RECURSIVE join_parts(_)
join_parts(content_parts) ==
    IF content_parts = <<>> THEN <<>>
    ELSE IF Len(content_parts) = 1 THEN content_parts[1]
    ELSE content_parts[1] \o <<Blank>> \o join_parts(Tail(content_parts))

\* f"## {section}\n{content}"
section_part(section) ==
    <<<<"##", section.name>>>> \o
        (IF section.content = <<>> THEN <<Blank>> ELSE section.content)

_extract_main_content(sections) ==
    LET kept == SelectSeq(sections,
                    LAMBDA sec : lower(sec.name) \notin excluded_sections)
    IN  join_parts([i \in 1..Len(kept) |-> section_part(kept[i])])

\* _ensure_markdown_consistency on texts made of Lines: the one rule that
\* applies puts a blank line after a header that is not the first line and
\* is followed by a line that is not blank.
RECURSIVE spaced(_, _)
spaced(content, i) ==
    IF i > Len(content) THEN <<>>
    ELSE <<content[i]>> \o
         (IF i > 1 /\ content[i][1] = "##" /\ i < Len(content)
               /\ content[i + 1] # Blank
          THEN <<Blank>> ELSE <<>>) \o
         spaced(content, i + 1)

_ensure_markdown_consistency(content) ==
    IF content = <<>> THEN content ELSE spaced(content, 1)

\* lines 309-319
expand_lesson_content(l, expanded_content) ==
    LET content_sections == _parse_markdown_sections(expanded_content)
        with_content ==
            [l EXCEPT !.content = _ensure_markdown_consistency(
                                     _extract_main_content(content_sections))]
    IN  IF l.type = "read_and_execute"
        THEN [with_content EXCEPT
                !.instruction = _ensure_markdown_consistency(
                                    get(content_sections, "instruction")),
                !.expected_output = _ensure_markdown_consistency(
                                    get(content_sections, "expected_output")),
                !.answer = _ensure_markdown_consistency(
                                    get(content_sections, "answer"))]
        ELSE with_content

LessonOutline(type) ==
    [type |-> type, content |-> <<>>, instruction |-> <<>>,
     expected_output |-> <<>>, answer |-> <<>>]

\* DetailedContentGenerator.expand_lesson_content: the model is invoked and
\* its response parsed; any exception leaves the lesson as it was.
ExpandLessonContent ==
    /\ expansion.pc = "invoke"
    /\ \E ok \in BOOLEAN :
          expansion' =
              IF ok
              THEN [expansion EXCEPT
                      !.pc = "expanded",
                      !.lesson = expand_lesson_content(expansion.lesson,
                                                       expansion.response)]
              ELSE [expansion EXCEPT !.pc = "failed"]
    /\ UNCHANGED <<startup, db, ids, req, gen, lesson, evaluation,
                   combined_courses_collection, next_combined_id,
                   users_collection>>

(* ------------------------- endpoints and answers ---------------------- *)
\* main.py: the handler registered for Exception.
global_exception_handler ==
    [status_code |-> "500", detail |-> "Internal server error",
     handler |-> TRUE]

\* the answer built from the value an endpoint function returned
Answered == [status_code |-> "200", detail |-> "", handler |-> FALSE]

\* add_new_course_using_ai and add_new_domain: try: return <component call>
\* except Exception as e: return CustomException(e, sys).  Whatever the
\* component raised is caught here and an exception object is returned as
\* the result; the framework then encodes the returned value.  encodable:
\* whether that encoding of a CustomException object succeeds; if it does
\* not, the encoder's own error is what the global handler receives.
EndpointReturn(w) ==
    /\ Finished(w)
    /\ req[w].op \in {"generate_course", "add_new_domain"}
    /\ req[w].response = NoResponse
    /\ \E encodable \in BOOLEAN :
          LET r == req[w]
              returns_exception ==
                  \/ r.outcome.kind = "raise"
                  \/ r.outcome = Return(CustomException)
          IN  req' = [req EXCEPT ![w].response =
                        IF returns_exception /\ ~encodable
                        THEN global_exception_handler
                        ELSE Answered]
    /\ UNCHANGED <<startup, detail, db, ids>>

SendResponse(w) ==
    /\ req[w].response # NoResponse
    /\ Respond(w)

(* ----------------------------- registration --------------------------- *)
Emails == {"ann@example.org", "bob@example.org"}
Roles == {"administrator", "course_creator", "organization"}

HTTPException(status_code, detail_text) ==
    <<"HTTPException", status_code, detail_text>>
EmailExists == HTTPException("400", "User with this email already exists")
CreateFailed == HTTPException("500", "Failed to create user")

\* AuthComponent.get_user_by_email: the rows of users with that email.
NoUserFound(collection, email) == {}
get_user_by_email(collection, email) ==
    {u \in BagToSet(collection) : u.email = email}

UserResponse(user) == <<"UserResponse", user.email, user.role>>

\* AuthComponent.register_user, called by register_administrator,
\* register_course_creator or register_organization with its role.
\* lookup_ok / insert_ok: the Supabase call returns; created: the insert
\* hands back the new row.
RegisterUser(w) ==
    /\ Idle(w)
    /\ \E email \in Emails, role \in Roles, lookup_ok \in BOOLEAN,
          insert_ok \in BOOLEAN, created \in BOOLEAN :
          LET r == [IdleRequest EXCEPT !.op = "register_user",
                                       !.pc = "registered",
                                       !.data.email = email,
                                       !.data.role = role,
                                       !.pre = <<Snapshot>>]
              existing_user == get_user_by_email(users_collection, email)
              user_data == [email |-> email, role |-> role]
              raised(v) == [r EXCEPT !.outcome = Raise(v)]
          IN  IF ~lookup_ok
              THEN /\ req' = [req EXCEPT ![w] =
                          [raised(CustomException) EXCEPT !.failed = TRUE]]
                   /\ UNCHANGED users_collection
              ELSE IF existing_user # {}
              THEN /\ req' = [req EXCEPT ![w] = raised(EmailExists)]
                   /\ UNCHANGED users_collection
              ELSE IF ~insert_ok
              THEN /\ req' = [req EXCEPT ![w] =
                          [raised(CustomException) EXCEPT !.failed = TRUE]]
                   /\ UNCHANGED users_collection
              ELSE IF ~created
              THEN /\ req' = [req EXCEPT ![w] = raised(CreateFailed)]
                   /\ UNCHANGED users_collection
              ELSE /\ req' = [req EXCEPT ![w] =
                          [r EXCEPT !.outcome = Return(UserResponse(user_data))]]
                   /\ users_collection' = insert_one(users_collection, user_data)
    /\ UNCHANGED <<startup, db, ids, gen, lesson, evaluation,
                   combined_courses_collection, next_combined_id, expansion>>

\* register_administrator and its siblings: the result of register_user is
\* handed on; anything it raised is wrapped into CustomException.
RegisterCaller(w) ==
    /\ req[w].op = "register_user" /\ req[w].pc = "registered"
    /\ req' = [req EXCEPT ![w] =
                 IF req[w].outcome.kind = "raise"
                 THEN [req[w] EXCEPT !.pc = "raised",
                                     !.outcome = Raise(CustomException)]
                 ELSE [req[w] EXCEPT !.pc = "returned"]]
    /\ UNCHANGED <<startup, db, ids, detail>>

(* --------------------- LessonQualityChecker scoring ------------------- *)
\* What evaluate_lesson reads off a lesson: the outcome of each test the
\* checker applies to its text.
ContentLengths == {100, 400, 600}
ParagraphCounts == {0, 3}

Lessons ==
    [type : {"read", "read_and_execute"},
     has_sections : BOOLEAN, content_length : ContentLengths,
     paragraph_count : ParagraphCounts, has_formatting : BOOLEAN,
     has_code : BOOLEAN, has_comments : BOOLEAN,
     has_proper_indentation : BOOLEAN, has_error_handling : BOOLEAN,
     has_clear_steps : BOOLEAN, has_clear_output : BOOLEAN,
     module_context : BOOLEAN, is_relevant : BOOLEAN]

NoLesson == [type |-> "none"]
NoEvaluation == [quality_score |-> -1, passes_threshold |-> FALSE]

\* check_content_structure
structure_quality(l) ==
    IF l.has_sections /\ l.content_length > 500 /\ l.paragraph_count >= 3
          /\ l.has_formatting
    THEN "good" ELSE "needs_improvement"

Min(a, b) == IF a < b THEN a ELSE b
Max(a, b) == IF a > b THEN a ELSE b

\* line 184
Unclamped(quality_score) == quality_score
ClampScore(quality_score) == Max(0, Min(100, quality_score))

PassMark == 70

\* evaluate_lesson, lines 150-184 and 221-230: the deductions are applied
\* one after the other to a score that starts at 100.
evaluate_lesson(l) ==
    LET is_exercise == l.type = "read_and_execute"
        is_relevant == IF l.module_context THEN l.is_relevant ELSE TRUE
        q0 == 100
        q1 == IF structure_quality(l) = "needs_improvement" THEN q0 - 20 ELSE q0
        q2 == IF l.content_length < 300 THEN q1 - 15 ELSE q1
        q3 == IF ~l.has_sections THEN q2 - 15 ELSE q2
        q4 == IF ~l.has_formatting THEN q3 - 10 ELSE q3
        q5 == IF l.has_code /\ ~l.has_comments THEN q4 - 10 ELSE q4
        q6 == IF l.has_code /\ ~l.has_proper_indentation THEN q5 - 10 ELSE q5
        q7 == IF l.has_code /\ ~l.has_error_handling THEN q6 - 5 ELSE q6
        q8 == IF is_exercise /\ ~l.has_clear_steps THEN q7 - 15 ELSE q7
        q9 == IF is_exercise /\ ~l.has_clear_output THEN q8 - 10 ELSE q8
        q10 == IF ~is_relevant THEN q9 - 25 ELSE q9
        quality_score == ClampScore(q10)
    IN  [quality_score |-> quality_score,
         passes_threshold |-> quality_score >= PassMark]

EvaluateLesson ==
    /\ lesson # NoLesson
    /\ evaluation = NoEvaluation
    /\ evaluation' = evaluate_lesson(lesson)
    /\ UNCHANGED <<server, gen, lesson>>

(* ------------------ generate_course, call by call --------------------- *)
Item == [made |-> 0, checked |-> 0, improved |-> 0, rechecked |-> 0]

NoGeneration ==
    [pc |-> "off", has_description |-> FALSE, llm_calls |-> 0, steps |-> 0,
     description |-> Item, modules |-> <<>>, lessons |-> <<>>,
     i |-> 0, j |-> 0, suggestions |-> FALSE, failing |-> {}]

Step(g, pc) == [g EXCEPT !.pc = pc, !.steps = @ + 1]
Invoked(g) == [g EXCEPT !.llm_calls = @ + 1]

GenDone == gen.pc \in {"returned", "raised"}

\* DescriptionQualityChecker.check_description_quality: each partial score
\* is 1.0 or 0.5 (here 10 or 5); the description passes at 80 of 100.
check_description_quality(length_ok, marketing, specificity) ==
    LET score(b) == IF b THEN 10 ELSE 5
        total == score(length_ok) + score(marketing) + score(specificity)
    IN  total * 100 >= 80 * 30

\* generate_description with a description supplied in the request.
UseGivenDescription ==
    /\ gen.pc = "describe" /\ gen.has_description
    /\ gen' = Step(gen, "insert_course")
    /\ UNCHANGED <<server, lesson, evaluation>>

\* course_description.py line 140
InvokeDescription ==
    /\ gen.pc = "describe" /\ ~gen.has_description
    /\ \E ok \in BOOLEAN :
          gen' = Step(Invoked([gen EXCEPT !.description.made = @ + 1]),
                      IF ok THEN "check_description" ELSE "raised")
    /\ UNCHANGED <<server, lesson, evaluation>>

\* course_description.py lines 144-148
CheckDescription ==
    /\ gen.pc = "check_description"
    /\ \E length_ok \in BOOLEAN, marketing \in BOOLEAN, specificity \in BOOLEAN :
          LET passes == check_description_quality(length_ok, marketing,
                                                  specificity)
          IN  gen' = Step([gen EXCEPT !.description.checked = @ + 1],
                          IF passes THEN "insert_course"
                          ELSE "improve_description")
    /\ UNCHANGED <<server, lesson, evaluation>>

\* Where generate_description goes once improve_description has returned.
RecheckDescription == "check_description"
AfterImproveDescription == "insert_course"

\* improve_description: a description that failed has feedback that is not
\* all "Good", so the model is invoked; an exception is swallowed.
ImproveDescription ==
    /\ gen.pc = "improve_description"
    /\ gen' = Step(Invoked([gen EXCEPT !.description.improved = @ + 1]),
                   AfterImproveDescription)
    /\ UNCHANGED <<server, lesson, evaluation>>

\* a MongoUtils.insert_one_document call of generate_course
InsertStep(stage, next) ==
    /\ gen.pc = stage
    /\ \E ok \in BOOLEAN : gen' = Step(gen, IF ok THEN next ELSE "raised")
    /\ UNCHANGED <<server, lesson, evaluation>>

StoreCourse == InsertStep("insert_course", "curriculum")

\* CurriculumStructureGenerator.generate_curriculum_structure
Curriculum ==
    /\ gen.pc = "curriculum"
    /\ \E ok \in BOOLEAN, n \in 0..MaxModules :
          gen' = IF ~ok THEN Step(Invoked(gen), "raised")
                 ELSE Step(Invoked([gen EXCEPT
                                !.modules = [k \in 1..n |-> Item],
                                !.i = 1]),
                           IF n = 0 THEN "modules_done" ELSE "enhance")
    /\ UNCHANGED <<server, lesson, evaluation>>

\* module_generator.py lines 372-373; enhance_module swallows a failure.
EnhanceModule ==
    /\ gen.pc = "enhance"
    /\ gen' = Step(Invoked([gen EXCEPT !.modules[gen.i].made = @ + 1]),
                   "check_module")
    /\ UNCHANGED <<server, lesson, evaluation>>

NextModule(g) ==
    IF g.i < Len(g.modules) THEN [g EXCEPT !.i = @ + 1, !.pc = "enhance"]
    ELSE [g EXCEPT !.pc = "modules_done"]

\* module_generator.py lines 376-381
CheckModule ==
    /\ gen.pc = "check_module"
    /\ \E passes \in BOOLEAN, suggestions \in BOOLEAN :
          LET g == Step([gen EXCEPT !.modules[gen.i].checked = @ + 1,
                                    !.suggestions = suggestions /\ ~passes],
                        "improve_module")
          IN  gen' = IF passes THEN NextModule(g) ELSE g
    /\ UNCHANGED <<server, lesson, evaluation>>

\* improve_module: without suggestions the module is returned as it is.
ImproveModule ==
    /\ gen.pc = "improve_module"
    /\ LET g == Step([gen EXCEPT !.suggestions = FALSE], "improve_module")
       IN  gen' = NextModule(
                    IF gen.suggestions
                    THEN Invoked([g EXCEPT !.modules[gen.i].improved = @ + 1])
                    ELSE g)
    /\ UNCHANGED <<server, lesson, evaluation>>

\* module_generator.py lines 390-400, graph.py lines 36-48 and the subscript
\* on courses.py line 138: the modules document is handed over or the call
\* fails.
ModulesDone ==
    /\ gen.pc = "modules_done"
    /\ \E ok \in BOOLEAN :
          gen' = Step([gen EXCEPT !.i = 0],
                      IF ok THEN "insert_modules" ELSE "raised")
    /\ UNCHANGED <<server, lesson, evaluation>>

StoreModules ==
    /\ gen.pc = "insert_modules"
    /\ \E ok \in BOOLEAN :
         gen' = IF ~ok THEN Step(gen, "raised")
                ELSE IF gen.modules = <<>> THEN Step(gen, "course_check")
                ELSE Step([gen EXCEPT !.i = 1], "outline")
    /\ UNCHANGED <<server, lesson, evaluation>>

\* ContentOutlineGenerator.generate_lesson_outlines; no handler up to
\* generate_course, so a failure ends the call.
Outline ==
    /\ gen.pc = "outline"
    /\ \E ok \in BOOLEAN, n \in 0..MaxLessons :
          gen' = IF ~ok THEN Step(Invoked(gen), "raised")
                 ELSE Step(Invoked([gen EXCEPT
                                !.lessons = Append(@, [k \in 1..n |-> Item]),
                                !.j = 1]),
                           IF n = 0 THEN "check_lessons" ELSE "expand")
    /\ UNCHANGED <<server, lesson, evaluation>>

\* DetailedContentGenerator.expand_lesson_content; a failure is swallowed.
ExpandLesson ==
    /\ gen.pc = "expand"
    /\ LET g == Invoked([gen EXCEPT !.lessons[gen.i][gen.j].made = @ + 1])
       IN  gen' = IF gen.j < Len(gen.lessons[gen.i])
                  THEN Step([g EXCEPT !.j = @ + 1], "expand")
                  ELSE Step(g, "check_lessons")
    /\ UNCHANGED <<server, lesson, evaluation>>

AfterModuleLessons(g) ==
    IF g.i < Len(g.modules)
    THEN [g EXCEPT !.i = @ + 1, !.j = 0, !.failing = {}, !.pc = "outline"]
    ELSE [g EXCEPT !.i = 0, !.j = 0, !.failing = {}, !.pc = "course_check"]

Evaluated(item) ==
    [item EXCEPT !.checked = @ + 1,
                 !.rechecked = IF item.improved > 0 THEN @ + 1 ELSE @]

\* _check_and_improve_module_quality, line 430: check_module_quality
\* evaluates every lesson of the module; failing holds those below the
\* threshold.  An exception is logged and the lessons are kept.
CheckLessons ==
    /\ gen.pc = "check_lessons"
    /\ \E ok \in BOOLEAN, failing \in SUBSET (1..Len(gen.lessons[gen.i])) :
          LET g == Step([gen EXCEPT
                            !.lessons[gen.i] =
                                [k \in 1..Len(@) |-> Evaluated(@[k])],
                            !.failing = failing, !.j = 1],
                        "improve_lessons")
          IN  gen' = IF ok /\ failing # {} THEN g ELSE AfterModuleLessons(g)
    /\ UNCHANGED <<server, lesson, evaluation>>

\* lines 435-447: one pass over lesson_evaluations; a lesson below the
\* threshold always has suggestions, so improve_lesson invokes the model.
ImproveLessons ==
    /\ gen.pc = "improve_lessons"
    /\ LET g0 == IF gen.j \in gen.failing
                 THEN Invoked([gen EXCEPT
                                 !.lessons[gen.i][gen.j].improved = @ + 1])
                 ELSE gen
           g == Step(g0, "improve_lessons")
       IN  gen' = IF gen.j < Len(gen.lessons[gen.i])
                  THEN [g EXCEPT !.j = @ + 1]
                  ELSE AfterModuleLessons(g)
    /\ UNCHANGED <<server, lesson, evaluation>>

\* lessons_generator.py line 415: check_course_quality runs
\* check_module_quality, hence evaluate_lesson, over every module again.
CourseCheck ==
    /\ gen.pc = "course_check"
    /\ gen' = Step([gen EXCEPT
                      !.lessons = [m \in 1..Len(@) |->
                                     [k \in 1..Len(@[m]) |-> Evaluated(@[m][k])]]],
                   "insert_lessons")
    /\ UNCHANGED <<server, lesson, evaluation>>

StoreLessons == InsertStep("insert_lessons", "returned")

(* ---------------------------- specification --------------------------- *)
NoExpansion == [pc |-> "off"]

InitServer ==
    /\ api_router = {}
    /\ app = {}
    /\ boot = 0
    /\ courses_collection = EmptyBag
    /\ modules_collection = EmptyBag
    /\ lessons_collection = EmptyBag
    /\ domain_collection = EmptyBag
    /\ segments_collection = EmptyBag
    /\ next_course_id = 1
    /\ next_segment_id = 1
    /\ next_domain_id = 1
    /\ req = [w \in Workers |-> IdleRequest]
    /\ combined_courses_collection = EmptyBag
    /\ next_combined_id = 1
    /\ users_collection = EmptyBag
    /\ expansion = NoExpansion

Init ==
    /\ InitServer
    /\ gen = NoGeneration
    /\ lesson = NoLesson
    /\ evaluation = NoEvaluation

Startup == IncludeEndpoints \/ MountApi

GenerateCourse(w) ==
    \/ FindExisting(w)
    \/ GenerateDescription(w)
    \/ InsertCourse(w)
    \/ GenerateModule(w)
    \/ InsertModules(w)
    \/ GenerateLessons(w)
    \/ InsertLessons(w)

DeleteCourse(w) ==
    \/ DeleteCourseDoc(w)
    \/ DeleteModules(w)
    \/ DeleteLessons(w)
    \/ PullFromDomains(w)

\* Requests are handled one at a time (Workers is a single worker).
Next ==
    \/ Startup
    \/ \E w \in Workers :
          \/ BeginGenerateCourse(w, MaxCourses)
          \/ GenerateCourse(w)
          \/ BeginDeleteCourse(w)
          \/ DeleteCourse(w)
          \/ AddNewDomain(w)
          \/ AddCoursesToDomain(w)
          \/ GetCoursesBySegmentId(w)
          \/ Respond(w)

Spec == Init /\ [][Next]_vars

\* The segment operations, over the courses and domains they reference.
NextSegments ==
    \/ Startup
    \/ \E w \in Workers :
          \/ BeginGenerateCourse(w, MaxSegmentCourses)
          \/ GenerateCourse(w)
          \/ AddNewDomain(w)
          \/ AddSegments(w)
          \/ AddSegmentToCourse(w)
          \/ AddSegmentsToDomain(w)
          \/ DeleteSegment(w)
          \/ Respond(w)

SpecSegments == Init /\ [][NextSegments]_vars

\* create_combined_course over the courses generate_course has stored.
NextCombined ==
    \/ Startup
    \/ \E w \in Workers :
          \/ BeginGenerateCourse(w, MaxCourses)
          \/ GenerateCourse(w)
          \/ CreateCombinedCourse(w)
          \/ Respond(w)

SpecCombined == Init /\ [][NextCombined]_vars

\* Requests to /courses/ai/add-course and /domain/add-domain, up to the
\* answer the client gets.
NextEndpoints ==
    \/ Startup
    \/ \E w \in Workers :
          \/ BeginGenerateCourse(w, MaxCourses)
          \/ GenerateCourse(w)
          \/ AddNewDomain(w)
          \/ EndpointReturn(w)
          \/ SendResponse(w)

SpecEndpoints == Init /\ [][NextEndpoints]_vars

\* The sync endpoint functions run on the server's thread pool, so two
\* requests can be inside their handlers at once; every database call is
\* one step.
InitConcurrent ==
    /\ api_router = {} /\ app = {} /\ boot = 0
    /\ courses_collection = EmptyBag /\ modules_collection = EmptyBag
    /\ lessons_collection = EmptyBag /\ domain_collection = EmptyBag
    /\ segments_collection = EmptyBag
    /\ next_course_id = 1 /\ next_segment_id = 1 /\ next_domain_id = 1
    /\ req = [w \in Concurrent |-> IdleRequest]
    /\ combined_courses_collection = EmptyBag /\ next_combined_id = 1
    /\ users_collection = EmptyBag /\ expansion = NoExpansion
    /\ gen = NoGeneration /\ lesson = NoLesson /\ evaluation = NoEvaluation

NextConcurrent ==
    \/ Startup
    \/ \E w \in Concurrent :
          \/ BeginGenerateCourse(w, MaxConcurrentCourses)
          \/ GenerateCourse(w)
          \/ BeginDeleteCourse(w)
          \/ DeleteCourse(w)
          \/ Respond(w)

SpecConcurrent == InitConcurrent /\ [][NextConcurrent]_vars

\* expand_lesson_content applied to every response of Responses.
InitExpansion ==
    /\ api_router = {} /\ app = {} /\ boot = 0
    /\ courses_collection = EmptyBag /\ modules_collection = EmptyBag
    /\ lessons_collection = EmptyBag /\ domain_collection = EmptyBag
    /\ segments_collection = EmptyBag
    /\ next_course_id = 1 /\ next_segment_id = 1 /\ next_domain_id = 1
    /\ req = [w \in Workers |-> IdleRequest]
    /\ combined_courses_collection = EmptyBag /\ next_combined_id = 1
    /\ users_collection = EmptyBag
    /\ gen = NoGeneration /\ lesson = NoLesson /\ evaluation = NoEvaluation
    /\ \E type \in LessonTypes, response \in Responses :
          expansion = [pc |-> "invoke", response |-> response,
                       lesson |-> LessonOutline(type)]

SpecExpansion == InitExpansion /\ [][ExpandLessonContent]_vars

\* The registration operations of AuthComponent.
NextAuth ==
    \E w \in Workers :
        \/ RegisterUser(w)
        \/ RegisterCaller(w)
        \/ Respond(w)

SpecAuth == Init /\ [][NextAuth]_vars

\* evaluate_lesson applied to every lesson of Lessons.
InitScoring ==
    /\ InitServer
    /\ gen = NoGeneration
    /\ lesson \in Lessons
    /\ evaluation = NoEvaluation

SpecScoring == InitScoring /\ [][EvaluateLesson]_vars

\* One generate_course call for a new course name, one model or database
\* call per step; every call returns.
InitGeneration ==
    /\ InitServer
    /\ \E given \in BOOLEAN :
          gen = [NoGeneration EXCEPT !.pc = "describe",
                                     !.has_description = given]
    /\ lesson = NoLesson
    /\ evaluation = NoEvaluation

NextGeneration ==
    \/ UseGivenDescription
    \/ InvokeDescription
    \/ CheckDescription
    \/ ImproveDescription
    \/ StoreCourse
    \/ Curriculum
    \/ EnhanceModule
    \/ CheckModule
    \/ ImproveModule
    \/ ModulesDone
    \/ StoreModules
    \/ Outline
    \/ ExpandLesson
    \/ CheckLessons
    \/ ImproveLessons
    \/ CourseCheck
    \/ StoreLessons

SpecGeneration ==
    InitGeneration /\ [][NextGeneration]_vars /\ WF_vars(NextGeneration)

(* ------------------------------ properties ---------------------------- *)
IsPrefix(s, t) == Len(s) <= Len(t) /\ s = SubSeq(t, 1, Len(s))

\* stage has been started by request r and has returned normally
Completed(r, stage) ==
    \E i \in 1..Len(r.trace) :
        /\ r.trace[i] = stage
        /\ ~(r.pc = "raised" /\ i = Len(r.trace))

Before(r) == r.pre[1]

\* C1: a generate_course call for a new course name runs generate
\* description, insert course, generate modules, insert modules, generate
\* lessons, insert lessons in exactly this order, each at most once; a
\* document is in its collection only after its generation step and the
\* previous insert have returned.
C1_PipelineOrder ==
    \A w \in Workers :
        LET r == req[w]
            order == <<"generate_description", "insert_course",
                       "generate_module", "insert_modules",
                       "generate_lessons", "insert_lessons">>
            written(collection) == CountByCourseId(collection, r.unique_id)
        IN  (r.op = "generate_course" /\ r.unique_id # 0) =>
               /\ IsPrefix(r.trace, order)
               /\ ~Finished(w) => r.pc = order[Len(r.trace) + 1]
               /\ written(courses_collection) =
                     IF Completed(r, "insert_course") THEN 1 ELSE 0
               /\ written(modules_collection) =
                     IF Completed(r, "insert_modules") THEN 1 ELSE 0
               /\ written(lessons_collection) =
                     IF Completed(r, "insert_lessons") THEN 1 ELSE 0
               /\ written(modules_collection) <= written(courses_collection)
               /\ written(lessons_collection) <= written(modules_collection)
               /\ Completed(r, "insert_course") => r.description # {}
               /\ Completed(r, "insert_modules") => r.generated_modules # {}
               /\ Completed(r, "insert_lessons") => r.lessons # {}

C1_Witness ==
    \E w \in Workers :
        /\ req[w].op = "generate_course" /\ req[w].pc = "returned"
        /\ Len(req[w].trace) = 6
        /\ CountByCourseId(lessons_collection, req[w].unique_id) = 1

\* C2: when generate_course returns its success result, each of the
\* courses, modules and lessons collections holds exactly one document more
\* than before the call, and that document carries the course_id generated
\* at the start of the call.
C2_OneDocumentPerCollection ==
    \A w \in Workers :
        LET r == req[w]
            one_new(now, before) ==
                /\ BagCardinality(now) = BagCardinality(before) + 1
                /\ CountByCourseId(before, r.unique_id) = 0
                /\ CountByCourseId(now, r.unique_id) = 1
        IN  (r.op = "generate_course" /\ r.pc = "returned"
                /\ r.outcome = Return(<<"udpated", "True">>)) =>
               /\ r.unique_id \in CourseIds
               /\ one_new(courses_collection, Before(r).courses)
               /\ one_new(modules_collection, Before(r).modules)
               /\ one_new(lessons_collection, Before(r).lessons)

C2_Witness ==
    \E w \in Workers :
        /\ req[w].op = "generate_course" /\ req[w].pc = "returned"
        /\ req[w].outcome.value = InsertResult
        /\ BagCardinality(Before(req[w]).modules) = 1
        /\ BagCardinality(modules_collection) = 2

\* C3: generate_course for a course_name that already has a course document
\* invokes no model and leaves every collection as it was; when its
\* existence query answers, it returns "Course '<name>' already exists.".
C3_ExistingCourseUntouched ==
    \A w \in Workers :
        LET r == req[w]
        IN  (r.op = "generate_course"
                /\ WithCourseName(Before(r).courses, r.data.course_name) # {}) =>
               /\ ~r.llm
               /\ r.trace = <<>>
               /\ r.unique_id = 0
               /\ Snapshot = Before(r)
               /\ (Finished(w) /\ ~r.failed) =>
                     r.outcome = Return(<<"Course '", r.data.course_name,
                                          "' already exists.">>)

C3_Witness ==
    \E w \in Workers :
        /\ req[w].op = "generate_course" /\ req[w].pc = "returned"
        /\ req[w].found
        /\ req[w].outcome.value[2] \in Names

\* C4: every failure inside a component operation reaches the caller as a
\* raised CustomException, never as an ordinary return value.
C4_FailuresAreRaised ==
    \A w \in Workers :
        (Finished(w) /\ req[w].failed) =>
            req[w].outcome = [kind |-> "raise", value |-> <<"CustomException">>]

\* C5: when a stage of generate_course after the course insert fails, the
\* call raises CustomException, the course document (and the modules
\* document, if its insert had returned) stays as inserted, nothing is
\* written for the failed and later stages, and nothing else changes.
C5_NoCompensation ==
    \A w \in Workers :
        LET r == req[w]
            plus(before, docs) ==
                before (+) SetToBag(docs)
        IN  (r.op = "generate_course" /\ r.pc = "raised"
                /\ Completed(r, "insert_course")) =>
               /\ r.outcome = [kind |-> "raise", value |-> <<"CustomException">>]
               /\ courses_collection =
                     plus(Before(r).courses,
                          {[course_id |-> r.unique_id,
                            course_name |-> r.data.course_name,
                            segment_ids |-> {}]})
               /\ modules_collection =
                     IF Completed(r, "insert_modules")
                     THEN plus(Before(r).modules, {[course_id |-> r.unique_id]})
                     ELSE Before(r).modules
               /\ lessons_collection = Before(r).lessons
               /\ domain_collection = Before(r).domains
               /\ segments_collection = Before(r).segments

C5_Witness ==
    \E w \in Workers :
        /\ req[w].op = "generate_course" /\ req[w].pc = "raised"
        /\ Len(req[w].trace) = 5
        /\ CountByCourseId(modules_collection, req[w].unique_id) = 1
        /\ CountByCourseId(lessons_collection, req[w].unique_id) = 0

RECURSIVE SumOver(_, _)
SumOver(f, n) == IF n = 0 THEN 0 ELSE f[n] + SumOver(f, n - 1)

ItemsOfLessons(g) ==
    UNION {{g.lessons[m][k] : k \in 1..Len(g.lessons[m])} :
              m \in 1..Len(g.lessons)}

ItemsOfModules(g) == {g.modules[m] : m \in 1..Len(g.modules)}

\* every item generated once and improved at most once
OncePerItem(g) ==
    \A it \in {g.description} \cup ItemsOfModules(g) \cup ItemsOfLessons(g) :
        it.made <= 1 /\ it.improved <= 1

\* the model invocations of one call, bounded by what was generated
CallsBounded(g) ==
    LET per_module == [m \in 1..Len(g.lessons) |-> 1 + 2 * Len(g.lessons[m])]
    IN  g.llm_calls <= 2 + 1 + 2 * Len(g.modules)
                          + (Len(g.modules) - Len(g.lessons))
                          + SumOver(per_module, Len(g.lessons))

\* the calls of one generate_course, bounded by what was generated
StepsBounded(g) ==
    LET per_module == [m \in 1..Len(g.lessons) |-> 2 + 2 * Len(g.lessons[m])]
    IN  g.steps <= 9 + 3 * Len(g.modules)
                     + 2 * (MaxLessons + 1) * (Len(g.modules) - Len(g.lessons))
                     + SumOver(per_module, Len(g.lessons))

\* C6 (as claimed): generate_course makes a bounded number of model calls;
\* the description, every module and every lesson is generated once and
\* improved at most once, and an improved item is never checked again.
C6_NeverRechecked ==
    gen.pc # "off" =>
        /\ OncePerItem(gen)
        /\ CallsBounded(gen)
        /\ \A it \in {gen.description} \cup ItemsOfModules(gen)
                        \cup ItemsOfLessons(gen) : it.rechecked = 0

C6_Counts ==
    gen.pc # "off" =>
        /\ OncePerItem(gen)
        /\ CallsBounded(gen)
        /\ StepsBounded(gen)
        /\ \A it \in {gen.description} \cup ItemsOfModules(gen) :
              it.rechecked = 0 /\ it.checked <= 1
        /\ \A it \in ItemsOfLessons(gen) :
              it.rechecked <= 1 /\ it.checked <= 2

\* C6 (amended): generate_course makes a bounded number of model calls and
\* ends when every call returns; every item is generated once and improved
\* at most once; an improved description or module is never checked again,
\* an improved lesson is evaluated once more by the course-level quality
\* check and is never improved or regenerated a second time.
C6_BoundedAndTerminates == []C6_Counts /\ <>GenDone

C6_Witness ==
    /\ gen.pc = "returned"
    /\ \E it \in ItemsOfLessons(gen) :
          it.made = 1 /\ it.improved = 1 /\ it.rechecked = 1
    /\ \E it \in ItemsOfModules(gen) : it.improved = 1
    /\ gen.description.improved = 1

\* C8: evaluate_lesson returns an integer quality_score in 0..100, equal to
\* 100 minus the structure, code, exercise and relevance deductions that
\* apply, clamped to that range; passes_threshold holds exactly when the
\* score is at least 70.
C8_ScoreClamped ==
    evaluation # NoEvaluation =>
        LET l == lesson
            d(cond, points) == IF cond THEN points ELSE 0
            structure ==
                d(~(l.has_sections /\ l.content_length > 500
                      /\ l.paragraph_count >= 3 /\ l.has_formatting), 20)
                + d(l.content_length < 300, 15)
                + d(~l.has_sections, 15) + d(~l.has_formatting, 10)
            code ==
                d(l.has_code /\ ~l.has_comments, 10)
                + d(l.has_code /\ ~l.has_proper_indentation, 10)
                + d(l.has_code /\ ~l.has_error_handling, 5)
            exercise ==
                d(l.type = "read_and_execute" /\ ~l.has_clear_steps, 15)
                + d(l.type = "read_and_execute" /\ ~l.has_clear_output, 10)
            relevance == d(l.module_context /\ ~l.is_relevant, 25)
            raw == 100 - (structure + code + exercise + relevance)
            expected == IF raw < 0 THEN 0 ELSE IF raw > 100 THEN 100 ELSE raw
        IN  /\ evaluation.quality_score \in 0..100
            /\ evaluation.quality_score = expected
            /\ evaluation.passes_threshold <=> evaluation.quality_score >= 70

C8_Witness ==
    /\ evaluation # NoEvaluation
    /\ evaluation.quality_score = 0
    /\ ~lesson.has_sections /\ lesson.has_code /\ ~lesson.has_comments
    /\ lesson.type = "read_and_execute" /\ ~lesson.has_clear_steps

\* C7: once the application serves requests, the routes under /api/v1
\* include the login and register operations next to the course, domain,
\* module, lesson, segment and chatbot routes.
C7_AuthRoutesServed ==
    Serving =>
        /\ Served("/auth", "/login")
        /\ Served("/auth", "/register/administrator")
        /\ Served("/courses", "/ai/add-course")
        /\ Served("/domain", "/add-domain")
        /\ Served("/modules", "/get-modules")
        /\ Served("/lessons", "/get-lessons")
        /\ Served("/segments", "/add-segments")
        /\ Served("/lessons", "/ai/bot")

\* C9: after delete_course(course_id) returns its success message no
\* courses, modules or lessons document has that course_id, no domain lists
\* it in courses_ids, and the documents of every other course are as before.
C9_CourseDeleted ==
    \A w \in Workers :
        LET r == req[w]
            id == r.data.course_id
            others(collection) ==
                [d \in {x \in BagToSet(collection) : x.course_id # id}
                    |-> collection[d]]
        IN  (r.op = "delete_course" /\ r.pc = "returned"
                /\ r.outcome =
                     Return(<<"Course and associated data deleted successfully">>)) =>
               /\ WithCourseId(courses_collection, id) = {}
               /\ WithCourseId(modules_collection, id) = {}
               /\ WithCourseId(lessons_collection, id) = {}
               /\ \A d \in BagToSet(domain_collection) : id \notin d.courses_ids
               /\ courses_collection = others(Before(r).courses)
               /\ modules_collection = others(Before(r).modules)
               /\ lessons_collection = others(Before(r).lessons)

C9_Witness ==
    \E w \in Workers :
        LET r == req[w]
            id == r.data.course_id
        IN  /\ r.op = "delete_course" /\ r.pc = "returned"
            /\ WithCourseId(Before(r).courses, id) # {}
            /\ WithCourseId(Before(r).modules, id) # {}
            /\ WithCourseId(Before(r).lessons, id) # {}
            /\ \E d \in BagToSet(Before(r).domains) : id \in d.courses_ids
            /\ modules_collection # EmptyBag
            /\ lessons_collection # EmptyBag

\* C10: after delete_segment returns its success message the segment
\* document is gone, no domain or course document holds the id in its
\* segment_ids, and each of those documents keeps its other segment ids.
C10_SegmentDeleted ==
    \A w \in Workers :
        LET r == req[w]
            id == r.data.segment_id
            kept(now, before, same(_, _)) ==
                /\ BagCardinality(now) = BagCardinality(before)
                /\ \A b \in BagToSet(before) :
                      \E d \in BagToSet(now) :
                          /\ same(d, b)
                          /\ d.segment_ids = b.segment_ids \ {id}
        IN  (r.op = "delete_segment" /\ r.pc = "returned"
                /\ r.outcome =
                     Return(<<"Segment and references deleted successfully.">>)) =>
               /\ WithSegmentId(segments_collection, id) = {}
               /\ \A d \in BagToSet(domain_collection) : id \notin d.segment_ids
               /\ \A d \in BagToSet(courses_collection) : id \notin d.segment_ids
               /\ kept(domain_collection, Before(r).domains,
                       LAMBDA d, b : d.domain_id = b.domain_id
                                     /\ d.courses_ids = b.courses_ids)
               /\ kept(courses_collection, Before(r).courses,
                       LAMBDA d, b : d.course_id = b.course_id
                                     /\ d.course_name = b.course_name)

C10_Witness ==
    \E w \in Workers :
        LET r == req[w]
            id == r.data.segment_id
        IN  /\ r.op = "delete_segment" /\ r.pc = "returned"
            /\ r.outcome.value = SegmentDeleted
            /\ \E d \in BagToSet(Before(r).domains) :
                  id \in d.segment_ids /\ d.segment_ids # {id}
            /\ \E d \in BagToSet(Before(r).courses) :
                  id \in d.segment_ids /\ d.segment_ids # {id}

\* C11 (as claimed): create_combined_course inserts exactly one combined
\* course document when every course id of the request has a course
\* document, and otherwise raises an error naming the missing ids and
\* inserts nothing (calls whose database access fails are left aside).
C11_AllFoundOrNamed ==
    \A w \in DOMAIN req :
        LET r == req[w]
            course_ids == r.data.course_ids
            existing == {d.course_id : d \in BagToSet(Before(r).courses)}
            requested == {course_ids[k] : k \in DOMAIN course_ids}
            missing == {r.missing_course_ids[k] :
                            k \in DOMAIN r.missing_course_ids}
        IN  (r.op = "create_combined_course" /\ Finished(w)
                /\ r.outcome # Raise(CustomException)) =>
               IF requested \subseteq existing
               THEN /\ r.pc = "returned"
                    /\ \E d \in r.combined_course :
                          combined_courses_collection =
                              Before(r).combined (+) SetToBag({d})
               ELSE /\ r.pc = "raised"
                    /\ missing # {}
                    /\ missing = requested \ existing
                    /\ combined_courses_collection = Before(r).combined

\* C12 (as claimed): in the document create_combined_course stores, the
\* course whose id is at position k of the request's course_ids has order k.
C12_OrderFollowsRequest ==
    \A w \in DOMAIN req :
        LET r == req[w]
            course_ids == r.data.course_ids
        IN  (r.op = "create_combined_course" /\ r.pc = "returned") =>
               \A d \in r.combined_course :
                  \A k \in DOMAIN course_ids :
                     \E i \in DOMAIN d.courses :
                        /\ d.courses[i].course_id = course_ids[k]
                        /\ d.courses[i].order = k

\* C13: register_user called with an email that already has a user record
\* inserts nothing and leaves the user records as they were, and, when its
\* lookup returns, ends with the HTTP 400 error "User with this email
\* already exists" instead of a UserResponse.
C13_DuplicateEmailRejected ==
    \A w \in DOMAIN req :
        LET r == req[w]
        IN  (r.op = "register_user" /\ r.pc = "registered"
                /\ \E u \in BagToSet(Before(r).users) : u.email = r.data.email)
            => /\ users_collection = Before(r).users
               /\ r.outcome.kind = "raise"
               /\ ~r.failed => r.outcome = Raise(EmailExists)

C13_Witness ==
    \E w \in DOMAIN req :
        /\ req[w].op = "register_user" /\ req[w].pc = "registered"
        /\ \E u \in BagToSet(Before(req[w]).users) : u.email = req[w].data.email
        /\ req[w].outcome = Raise(EmailExists)
        /\ BagCardinality(users_collection) = 2

\* C15 (as claimed): a request during whose handling an exception was
\* raised is answered by the global exception handler, with HTTP 500 and
\* the detail "Internal server error".
C15_ExceptionsReachHandler ==
    \A w \in DOMAIN req :
        (req[w].response # NoResponse /\ req[w].failed) =>
            /\ req[w].response.handler
            /\ req[w].response.status_code = "500"
            /\ req[w].response.detail = "Internal server error"

\* the lines of the section of a response headed "## title" (the response
\* has one such header): those after the header up to the next header
SectionOf(response, title) ==
    LET h == CHOOSE i \in DOMAIN response : response[i] = <<"##", title>>
        later == {i \in DOMAIN response : i > h /\ response[i][1] = "##"}
        end == IF later = {} THEN Len(response) + 1
               ELSE CHOOSE i \in later : \A j \in later : i <= j
    IN  SubSeq(response, h + 1, end - 1)

HasOnce(response, title) ==
    Cardinality({i \in DOMAIN response : response[i] = <<"##", title>>}) = 1

\* C16 (as claimed): after expand_lesson_content succeeds on a
\* read_and_execute lesson whose response has the sections "## Instruction",
\* "## Expected Output" and "## Answer", the lesson's instruction,
\* expected_output and answer hold the text of those sections.
C16_SectionsReachFields ==
    (/\ expansion.pc = "expanded"
     /\ expansion.lesson.type = "read_and_execute"
     /\ HasOnce(expansion.response, "Instruction")
     /\ HasOnce(expansion.response, "Expected Output")
     /\ HasOnce(expansion.response, "Answer"))
    => /\ expansion.lesson.instruction =
              SectionOf(expansion.response, "Instruction")
       /\ expansion.lesson.expected_output =
              SectionOf(expansion.response, "Expected Output")
       /\ expansion.lesson.answer = SectionOf(expansion.response, "Answer")

\* the three task sections, whatever the case of their headers
TaskSections == {"instruction", "expected output", "answer"}

\* position i of the response lies in one of the three task sections
InTaskSection(response, i) ==
    LET heads == {j \in DOMAIN response : j <= i /\ response[j][1] = "##"}
    IN  /\ heads # {}
        /\ LET h == CHOOSE j \in heads : \A k \in heads : k <= j
           IN  lower(response[h][2]) \in TaskSections

\* C17 (as claimed): after expand_lesson_content succeeds, every line of the
\* response outside the Instruction, Expected Output and Answer sections is
\* a line of the lesson's content, and the headers of those three sections
\* are not.
C17_ContentPreserved ==
    expansion.pc = "expanded" =>
        LET response == expansion.response
            content == expansion.lesson.content
            kept == {content[i] : i \in DOMAIN content}
        IN  /\ \A i \in DOMAIN response :
                  ~InTaskSection(response, i) => response[i] \in kept
            /\ \A title \in Titles :
                  lower(title) \in TaskSections => <<"##", title>> \notin kept

\* C14 (as claimed): in every reachable state the courses collection holds
\* at most one document per course_name, also when generate_course requests
\* for the same name interleave.
C14_OneCoursePerName ==
    \A name \in Names :
        Copies(courses_collection,
               WithCourseName(courses_collection, name)) <= 1

\* C18 (as claimed): when no request is running, every modules document
\* and every lessons document has a course document with its course_id.
C18_NoOrphans ==
    (\A w \in DOMAIN req : Idle(w) \/ Finished(w)) =>
        \A d \in BagToSet(modules_collection) \cup BagToSet(lessons_collection) :
            WithCourseId(courses_collection, d.course_id) # {}

====
